---- MODULE Spec2Model ----
(***************************************************************************)
(* State-machine model of kuka_controllers::OneTaskInverseKinematics       *)
(* (one_task_inverse_kinematics.cpp): init, starting, update and the two   *)
(* topic callbacks command_configuration and set_gains.                    *)
(*                                                                         *)
(* Numbers are integers: joint angles, Cartesian coordinates, gains and    *)
(* periods are drawn from small integer sets, so that sums and products    *)
(* are exact.  The KDL forward kinematics, the Jacobian pseudo-inverse and *)
(* control_toolbox::Pid are libraries outside the file; they appear as the *)
(* operators JntToCart, PseudoInverse and computeCommand.                    *)
(***************************************************************************)
EXTENDS Integers, Sequences, FiniteSets, TLC

\* ----------------------------------------------------------------- bounds
\* longest kinematic chain (number of segments) the parameter server offers
MaxSegs == 2
\* |joint_des_states_.q(i)| is kept within this by the guard of update
MaxAbsQ == 1

\* joint positions a handle can report
Readings == {0, 1}
\* elapsed periods handed to update (period.toSec())
Periods == {1, 2}
\* positions a desired-pose message can carry
Positions == {<<0, 0, 0>>, <<1, 0, 0>>}
\* orientations a desired-pose message can carry (0 would be the identity
\* rotation; the handler never reads the field)
Rotations == {1}

\* ------------------------------------------------------------ small helpers
RECURSIVE SumSeq(_)
SumSeq(s) == IF s = <<>> THEN 0 ELSE Head(s) + SumSeq(Tail(s))

Zeros(n) == [i \in 1 .. n |-> 0]

Abs(a) == IF a < 0 THEN -a ELSE a

Clamp(a, lo, hi) == IF a < lo THEN lo ELSE IF a > hi THEN hi ELSE a

VecSub(a, b) == <<a[1] - b[1], a[2] - b[2], a[3] - b[3]>>

ZeroVec == <<0, 0, 0>>

\* KDL::Frame(): identity rotation, zero position
IdentityFrame == [p |-> ZeroVec, M |-> 0]

\* control_toolbox::Pid(): all gains zero
DefaultPid == [p |-> 0, i |-> 0, d |-> 0, i_max |-> 0, i_min |-> 0]

\* ------------------------------------------------------- parameter server
\* joint type of a chain segment: "None" is a fixed joint, "Rot" a movable one
JointTypes == {"None", "Rot"}

ChainSet == UNION {[1 .. n -> JointTypes] : n \in 1 .. MaxSegs}

XmlKinds == {"empty", "unparsable", "notree", "ok"}

\* what the parameter server and the robot description hold when init runs
ParamSet ==
  [search : BOOLEAN, root_name : BOOLEAN, tip_name : BOOLEAN,
   hasParam : BOOLEAN, xml : XmlKinds, connected : BOOLEAN, chain : ChainSet]

\* KDL::Chain::getNrOfJoints: the segments whose joint is not Joint::None
getNrOfJoints(chain) == Cardinality({s \in 1 .. Len(chain) : chain[s] # "None"})

\* hardware_interface: a handle exists for an actuated joint; getHandle
\* throws for any other name
HasHandle(chain, s) == chain[s] # "None"

\* ------------------------------------------------------------------- state
VARIABLES
  phase,               \* "constructed", "failed", "initialized", "running"
  params,              \* parameter server content
  init_ret,            \* "none", "true", "false", "threw"
  shutdown,            \* n.shutdown() was called
  kdl_chain_,
  joint_handles_,      \* segment numbers whose joint handle is held
  solvers,             \* the five solver objects exist
  subs,                \* topics subscribed to
  joint_msr_states_,   \* [q]
  joint_des_states_,   \* [q, qdot]
  tau_cmd_,
  J_,                  \* number of columns of the Jacobian
  J_pinv_,
  PIDs_,
  x_, x_des_, x_err_,
  cmd,                 \* command last written to each handle
  since,               \* "init", "starting", "update": that operation ran and no
                       \* pose message came after it; "cmd1", "cmd2": one, or two
                       \* and more, pose messages came after the last of them
  lastCmd,             \* position of the newest of these messages
  last,                \* the operation that ran last with its arguments, the
                       \* values since and lastCmd had when it began, and the
                       \* diagnostic it logged
  cycle                \* where update is: at = 0 outside the torque loop, else
                       \* the joint whose torque comes next; period of the
                       \* cycle, the gains it began with, the gains it has used

vars == <<phase, params, init_ret, shutdown, kdl_chain_, joint_handles_, solvers,
          subs, joint_msr_states_, joint_des_states_, tau_cmd_, J_, J_pinv_,
          PIDs_, x_, x_des_, x_err_, cmd, since, lastCmd, last, cycle>>

\* update is not running
Idle == [at |-> 0, period |-> 0, start |-> <<>>, used |-> <<>>]

NoArgs == [op |-> "none", p |-> ZeroVec, M |-> 0, data |-> <<>>, period |-> 0,
           since |-> "none", log |-> "none"]

Init ==
  /\ phase = "constructed"
  /\ params \in ParamSet
  /\ init_ret = "none"
  /\ shutdown = FALSE
  /\ kdl_chain_ = <<>>
  /\ joint_handles_ = <<>>
  /\ solvers = FALSE
  /\ subs = {}
  /\ joint_msr_states_ = [q |-> <<>>]
  /\ joint_des_states_ = [q |-> <<>>, qdot |-> <<>>]
  /\ tau_cmd_ = <<>>
  /\ J_ = 0
  /\ J_pinv_ = <<>>
  /\ PIDs_ = <<>>
  /\ x_ = IdentityFrame
  /\ x_des_ = IdentityFrame
  /\ x_err_ = [vel |-> ZeroVec, rot |-> ZeroVec]
  /\ cmd = <<>>
  /\ since = "none"
  /\ lastCmd = ZeroVec
  /\ last = NoArgs
  /\ cycle = Idle

\* ------------------------------------------------------------------- init
\* a variant of InitFailure that lets a missing chain through
InitFailureNoChainCheck(pr) ==
  IF ~pr.search THEN "no_description"
  ELSE IF ~pr.root_name THEN "no_root_name"
  ELSE IF ~pr.tip_name THEN "no_tip_name"
  ELSE IF ~pr.hasParam THEN "param_unset"
  ELSE IF pr.xml = "empty" THEN "empty"
  ELSE IF pr.xml = "unparsable" THEN "unparsable"
  ELSE IF pr.xml = "notree" THEN "notree"
  ELSE "none"

\* a variant of InitFailure that looks at the description parameter before
\* root_name and tip_name
InitFailureParamFirst(pr) ==
  IF ~pr.search THEN "no_description"
  ELSE IF ~pr.hasParam THEN "param_unset"
  ELSE IF ~pr.root_name THEN "no_root_name"
  ELSE IF ~pr.tip_name THEN "no_tip_name"
  ELSE IF pr.xml = "empty" THEN "empty"
  ELSE IF pr.xml = "unparsable" THEN "unparsable"
  ELSE IF pr.xml = "notree" THEN "notree"
  ELSE IF ~pr.connected THEN "no_chain"
  ELSE "none"

\* the first check of init that fails, in the order of the code; "none" if all pass
InitFailure(pr) ==
  IF ~pr.search THEN "no_description"
  ELSE IF ~pr.root_name THEN "no_root_name"
  ELSE IF ~pr.tip_name THEN "no_tip_name"
  ELSE IF ~pr.hasParam THEN "param_unset"
  ELSE IF pr.xml = "empty" THEN "empty"
  ELSE IF pr.xml = "unparsable" THEN "unparsable"
  ELSE IF pr.xml = "notree" THEN "notree"
  ELSE IF ~pr.connected THEN "no_chain"
  ELSE "none"

\* the failing checks that call n.shutdown() before returning false
ShutdownCauses == {"param_unset", "empty", "unparsable", "notree"}

\* segments 2 .. Len(chain) for which getHandle throws
NoHandleSegs(chain) == {s \in 2 .. Len(chain) : ~HasHandle(chain, s)}

\* the handle loop: one getHandle per segment after the first, in chain order,
\* stopping at the first segment for which getHandle throws
AcquireHandles(chain) ==
  LET bad  == NoHandleSegs(chain)
      stop == IF bad = {} THEN Len(chain) + 1
              ELSE CHOOSE s \in bad : \A t \in bad : s <= t
  IN  [i \in 1 .. stop - 2 |-> i + 1]

init ==
  /\ phase = "constructed"
  /\ LET cause == InitFailure(params)
         n     == getNrOfJoints(params.chain)
     IN
       IF cause # "none"
       THEN /\ phase' = "failed"
            /\ init_ret' = "false"
            /\ shutdown' = (cause \in ShutdownCauses)
            /\ UNCHANGED <<kdl_chain_, joint_handles_, solvers, subs,
                           joint_msr_states_, joint_des_states_, tau_cmd_, J_, PIDs_, cmd>>
       ELSE IF NoHandleSegs(params.chain) # {}
       THEN \* getHandle throws: init is left by the exception
            /\ phase' = "failed"
            /\ init_ret' = "threw"
            /\ kdl_chain_' = params.chain
            /\ joint_handles_' = AcquireHandles(params.chain)
            /\ UNCHANGED <<shutdown, solvers, subs, joint_msr_states_,
                           joint_des_states_, tau_cmd_, J_, PIDs_, cmd>>
       ELSE /\ phase' = "initialized"
            /\ init_ret' = "true"
            /\ kdl_chain_' = params.chain
            /\ joint_handles_' = AcquireHandles(params.chain)
            /\ solvers' = TRUE
            /\ joint_msr_states_' = [q |-> Zeros(n)]
            /\ joint_des_states_' = [q |-> Zeros(n), qdot |-> Zeros(n)]
            /\ tau_cmd_' = Zeros(n)
            /\ J_' = n
            /\ PIDs_' = [i \in 1 .. n |-> DefaultPid]
            /\ subs' = {"command_configuration", "set_gains"}
            /\ cmd' = Zeros(Len(params.chain) - 1)
            /\ UNCHANGED shutdown
  /\ last' = [NoArgs EXCEPT !.op = "init", !.log = InitFailure(params)]
  /\ since' = "init"
  /\ UNCHANGED <<params, J_pinv_, x_, x_des_, x_err_, lastCmd, cycle>>

\* ------------------------------------------------------- library operators
\* fk_pos_solver_->JntToCart: the pose of the tip for joint positions q
JntToCart(q) ==
  [p |-> << SumSeq(q),
            SumSeq([i \in 1 .. Len(q) |-> i * q[i]]),
            IF Len(q) = 0 THEN 0 ELSE q[1] >>,
   M |-> SumSeq(q) % 4]

\* jnt_to_jac_solver_->JntToJac followed by pseudo_inverse(J_, J_pinv_): the
\* pseudo-inverse of the Jacobian at joint positions q, n rows and 6 columns
PseudoInverse(n, q) ==
  [i \in 1 .. n |->
     [k \in 1 .. 6 |-> (IF SumSeq(q) % 2 = 0 THEN 1 ELSE -1) * (((i + k) % 3) - 1)]]

\* control_toolbox::Pid::computeCommand(error, dt); the integral term is
\* limited to [i_min, i_max], and d is 0 on both paths that write the gains
computeCommand(pid, error, dt) ==
  IF dt = 0 THEN 0
  ELSE pid.p * error + Clamp(pid.i * dt * error, pid.i_min, pid.i_max)

\* the gains starting hands to initPid
ActivationP == 100
ActivationI == 1
ActivationD == 0

initPid(pp, ii, dd, imax, imin) ==
  [p |-> pp, i |-> ii, d |-> dd, i_max |-> imax, i_min |-> imin]

\* x_err_(k), k = 0 .. 5 in the code, 1 .. 6 here: vel then rot
TwistAt(t, k) == IF k <= 3 THEN t.vel[k] ELSE t.rot[k - 3]

\* the joint positions read through the h handles held; entries beyond h stay
ReadJoints(q, rd) == [i \in 1 .. Len(q) |-> IF i <= Len(rd) THEN rd[i] ELSE q[i]]

ReadingSet(h) == [1 .. h -> Readings]

\* --------------------------------------------------------------- starting
\* a variant of StartDesired that leaves the desired position alone
StartDesiredKeep(des_q, msr_q, h) == des_q

\* joint_des_states_.q(i) = joint_msr_states_.q(i) for each handle
StartDesired(des_q, msr_q, h) ==
  [i \in 1 .. Len(des_q) |-> IF i <= h THEN msr_q[i] ELSE des_q[i]]

\* a variant of StartTarget that keeps the target received earlier
StartTargetKeep(x, old) == old

\* x_des_ = x_
StartTarget(x, old) == x

\* a variant of StartPids that initialises only PIDs nobody has configured yet
StartPidsOnce(pids) ==
  [i \in 1 .. Len(pids) |->
     IF pids[i] = DefaultPid
     THEN initPid(ActivationP, ActivationI, ActivationD, 0, 0)
     ELSE pids[i]]

\* PIDs_[i].initPid(100, 1, 0, 0.0, 0.0) for every PID
StartPids(pids) ==
  [i \in 1 .. Len(pids) |-> initPid(ActivationP, ActivationI, ActivationD, 0, 0)]

starting ==
  /\ phase \in {"initialized", "running"}
  /\ \E rd \in ReadingSet(Len(joint_handles_)) :
     \E msr \in {ReadJoints(joint_msr_states_.q, rd)} :
     \E x \in {JntToCart(msr)} :
       /\ joint_msr_states_' = [q |-> msr]
       /\ joint_des_states_' =
            [joint_des_states_ EXCEPT
               !.q = StartDesired(joint_des_states_.q, msr, Len(joint_handles_))]
       /\ PIDs_' = StartPids(PIDs_)
       /\ x_' = x
       /\ x_des_' = StartTarget(x, x_des_)
  /\ phase' = "running"
  /\ last' = [NoArgs EXCEPT !.op = "starting", !.since = since]
  /\ since' = "starting"
  /\ lastCmd' = ZeroVec
  /\ UNCHANGED <<params, init_ret, shutdown, kdl_chain_, joint_handles_, solvers,
                 subs, tau_cmd_, J_, J_pinv_, x_err_, cmd, cycle>>

\* ----------------------------------------------------------------- update
\* a variant of PoseError that also takes the orientation difference
PoseErrorWithRot(x_des, x) ==
  [vel |-> VecSub(x_des.p, x.p), rot |-> <<0, 0, x_des.M - x.M>>]

\* x_err_.vel = x_des_.p - x_.p; x_err_.rot(i) = 0.0
PoseError(x_des, x) == [vel |-> VecSub(x_des.p, x.p), rot |-> ZeroVec]

\* a variant of JointVelocity that does not clear the accumulator
JointVelocityNoReset(pinv, err, old) ==
  [i \in 1 .. Len(pinv) |->
     old[i] + SumSeq([k \in 1 .. 6 |-> pinv[i][k] * TwistAt(err, k)])]

\* qdot(i) = 0.0; qdot(i) += J_pinv_(i,k) * x_err_(k) over the columns k
JointVelocity(pinv, err, old) ==
  [i \in 1 .. Len(pinv) |->
     SumSeq([k \in 1 .. 6 |-> pinv[i][k] * TwistAt(err, k)])]

\* q(i) += period * qdot(i) for each handle
Integrate(q, qdot, period, h) ==
  [i \in 1 .. Len(q) |-> IF i <= h THEN q[i] + period * qdot[i] ELSE q[i]]

\* a variant of Torques that computes with the activation gains, whatever
\* gains the PIDs hold
TorquesActivationGains(tau, pids, q, msr, period, h) ==
  [i \in 1 .. Len(tau) |->
     IF i <= h
     THEN computeCommand(initPid(ActivationP, ActivationI, ActivationD, 0, 0),
                         q[i] - msr[i], period)
     ELSE tau[i]]

\* tau_cmd_(i) = PIDs_[i].computeCommand(q(i) - msr(i), period) for each handle
Torques(tau, pids, q, msr, period, h) ==
  [i \in 1 .. Len(tau) |->
     IF i <= h THEN computeCommand(pids[i], q[i] - msr[i], period) ELSE tau[i]]

update ==
  /\ phase = "running"
  /\ \E rd \in ReadingSet(Len(joint_handles_)), period \in Periods :
     \E msr \in {ReadJoints(joint_msr_states_.q, rd)} :
     \E pinv \in {PseudoInverse(J_, msr)} :
     \E x \in {JntToCart(msr)} :
     \E err \in {PoseError(x_des_, x)} :
     \E qdot \in {JointVelocity(pinv, err, joint_des_states_.qdot)} :
     \E q \in {Integrate(joint_des_states_.q, qdot, period, Len(joint_handles_))} :
     \E tau \in {Torques(tau_cmd_, PIDs_, q, msr, period, Len(joint_handles_))} :
       /\ \A i \in 1 .. Len(q) : Abs(q[i]) <= MaxAbsQ
       /\ joint_msr_states_' = [q |-> msr]
       /\ J_pinv_' = pinv
       /\ x_' = x
       /\ x_err_' = err
       /\ joint_des_states_' = [q |-> q, qdot |-> qdot]
       /\ tau_cmd_' = tau
       /\ cmd' = [i \in 1 .. Len(joint_handles_) |-> tau[i]]
       /\ last' = [NoArgs EXCEPT !.op = "update", !.period = period, !.since = since,
                                 !.p = lastCmd]
  /\ since' = "update"
  /\ lastCmd' = ZeroVec
  /\ UNCHANGED <<phase, params, init_ret, shutdown, kdl_chain_, joint_handles_,
                 solvers, subs, J_, PIDs_, x_des_, cycle>>

\* --------------------------------------------------- command_configuration
PoseMsgs == [p : Positions, M : Rotations]

\* a variant of NewTarget that keeps the orientation the target had
NewTargetKeepRot(old, msg) == [p |-> msg.p, M |-> old.M]

\* a variant of NewTarget that ignores a message while an earlier one is unread
NewTargetFirstWins(old, msg) ==
  IF since \in {"cmd1", "cmd2"} THEN old ELSE [p |-> msg.p, M |-> 0]

\* KDL::Frame frame_des_(KDL::Vector(x, y, z)): the rotation of a frame built
\* from a vector alone is the identity; x_des_ = frame_des_
NewTarget(old, msg) == [p |-> msg.p, M |-> 0]

command_configuration ==
  /\ "command_configuration" \in subs
  /\ \E msg \in PoseMsgs :
       /\ x_des_' = NewTarget(x_des_, msg)
       /\ lastCmd' = msg.p
       /\ last' = [NoArgs EXCEPT !.op = "command_configuration",
                                 !.p = msg.p, !.M = msg.M, !.since = since]
  /\ since' = IF since \in {"cmd1", "cmd2"} THEN "cmd2" ELSE "cmd1"
  /\ UNCHANGED <<phase, params, init_ret, shutdown, kdl_chain_, joint_handles_,
                 solvers, subs, joint_msr_states_, joint_des_states_, tau_cmd_,
                 J_, J_pinv_, PIDs_, x_, x_err_, cmd, cycle>>

\* ---------------------------------------------------------------- set_gains
\* a gains array of m values laid out for n PIDs: 10, 20, .. then 1, 2, ..
\* (n = 2, m = 4 is the example <<10, 20, 1, 2>> of the specification)
GainsArray(n, m) == [k \in 1 .. m |-> IF k <= n THEN 10 * k ELSE k - n]

\* the arrays a set_gains message can carry when there are n PIDs
GainsSet(n) == {GainsArray(n, m) : m \in {2 * n - 1, 2 * n, 2 * n + 1} \cap Nat}

\* a variant of SetGains that also takes an array longer than 2 * N
SetGainsLonger(pids, data) ==
  IF Len(data) >= 2 * Len(pids) /\ Len(pids) > 0
  THEN [i \in 1 .. Len(pids) |->
          [pids[i] EXCEPT !.p = data[i], !.i = data[i + Len(pids)],
                          !.d = 0, !.i_max = 0, !.i_min = 0]]
  ELSE pids

\* a variant of SetGains that reads the integral gain from the next entry
SetGainsInterleaved(pids, data) ==
  IF Len(data) = 2 * Len(pids)
  THEN [i \in 1 .. Len(pids) |->
          [pids[i] EXCEPT !.p = data[i], !.i = data[i + 1],
                          !.d = 0, !.i_max = 0, !.i_min = 0]]
  ELSE pids

\* a variant of SetGains without the length check: it takes the proportional
\* gains that are there
SetGainsUnchecked(pids, data) ==
  [i \in 1 .. Len(pids) |->
     IF i <= Len(data)
     THEN [pids[i] EXCEPT !.p = data[i], !.d = 0, !.i_max = 0, !.i_min = 0]
     ELSE pids[i]]

\* if data.size() == 2 * PIDs_.size(): setGains(data[i], data[i + size], 0, 0, 0)
SetGains(pids, data) ==
  IF Len(data) = 2 * Len(pids)
  THEN [i \in 1 .. Len(pids) |->
          [pids[i] EXCEPT !.p = data[i], !.i = data[i + Len(pids)],
                          !.d = 0, !.i_max = 0, !.i_min = 0]]
  ELSE pids

\* ROS_INFO("Number of PIDs gains must be = %lu", PIDs_.size()): the count the
\* diagnostic of a rejected message states
GainsDiagnostic(pids, data) ==
  IF Len(data) = 2 * Len(pids) THEN "none" ELSE Len(pids)

set_gains ==
  /\ "set_gains" \in subs
  /\ \E data \in GainsSet(Len(PIDs_)) :
       /\ PIDs_' = SetGains(PIDs_, data)
       /\ last' = [NoArgs EXCEPT !.op = "set_gains", !.data = data, !.since = since,
                                 !.log = GainsDiagnostic(PIDs_, data)]
  /\ UNCHANGED <<phase, params, init_ret, shutdown, kdl_chain_, joint_handles_,
                 solvers, subs, joint_msr_states_, joint_des_states_, tau_cmd_,
                 J_, J_pinv_, x_, x_des_, x_err_, cmd, since, lastCmd, cycle>>

\* ------------------------------------------------------------ specification
Next == init \/ starting \/ update \/ command_configuration \/ set_gains

Spec == Init /\ [][Next]_vars

\* ------------------------------------- update and the callbacks, unserialized
\* update runs in the control loop and the two handlers in the subscriber's
\* callback thread; the source has no lock, so a handler can run between any
\* two statements of update.  Here update is cut where that shows: the part up
\* to the integration, then one step per iteration of the torque loop.

\* the smallest chain with two joint handles
RaceChain == <<"None", "Rot", "Rot">>

\* a variant of GainsRead that takes the gains the PID held when the cycle began
GainsReadAtStart(pids, cyc, i) == cyc.start[i]

\* PIDs_[i].computeCommand reads the gains PIDs_[i] holds when it is called
GainsRead(pids, cyc, i) == pids[i]

\* the controller after init on RaceChain and starting
RaceInit ==
  /\ phase = "running"
  /\ params = [search |-> TRUE, root_name |-> TRUE, tip_name |-> TRUE,
               hasParam |-> TRUE, xml |-> "ok", connected |-> TRUE,
               chain |-> RaceChain]
  /\ init_ret = "true"
  /\ shutdown = FALSE
  /\ kdl_chain_ = RaceChain
  /\ joint_handles_ = AcquireHandles(RaceChain)
  /\ solvers = TRUE
  /\ subs = {"command_configuration", "set_gains"}
  /\ \E rd \in ReadingSet(Len(AcquireHandles(RaceChain))) :
     \E msr \in {ReadJoints(Zeros(getNrOfJoints(RaceChain)), rd)} :
       /\ joint_msr_states_ = [q |-> msr]
       /\ joint_des_states_ =
            [q |-> StartDesired(Zeros(getNrOfJoints(RaceChain)), msr,
                                Len(AcquireHandles(RaceChain))),
             qdot |-> Zeros(getNrOfJoints(RaceChain))]
       /\ x_ = JntToCart(msr)
       /\ x_des_ = StartTarget(JntToCart(msr), IdentityFrame)
  /\ tau_cmd_ = Zeros(getNrOfJoints(RaceChain))
  /\ J_ = getNrOfJoints(RaceChain)
  /\ J_pinv_ = <<>>
  /\ PIDs_ = StartPids([i \in 1 .. getNrOfJoints(RaceChain) |-> DefaultPid])
  /\ x_err_ = [vel |-> ZeroVec, rot |-> ZeroVec]
  /\ cmd = Zeros(Len(RaceChain) - 1)
  /\ since = "starting"
  /\ lastCmd = ZeroVec
  /\ last = [NoArgs EXCEPT !.op = "starting", !.since = "init"]
  /\ cycle = Idle

\* update up to the integration of the desired position
update_begin ==
  /\ phase = "running"
  /\ cycle.at = 0
  /\ \E rd \in ReadingSet(Len(joint_handles_)), period \in Periods :
     \E msr \in {ReadJoints(joint_msr_states_.q, rd)} :
     \E pinv \in {PseudoInverse(J_, msr)} :
     \E x \in {JntToCart(msr)} :
     \E err \in {PoseError(x_des_, x)} :
     \E qdot \in {JointVelocity(pinv, err, joint_des_states_.qdot)} :
     \E q \in {Integrate(joint_des_states_.q, qdot, period, Len(joint_handles_))} :
       /\ \A i \in 1 .. Len(q) : Abs(q[i]) <= MaxAbsQ
       /\ joint_msr_states_' = [q |-> msr]
       /\ J_pinv_' = pinv
       /\ x_' = x
       /\ x_err_' = err
       /\ joint_des_states_' = [q |-> q, qdot |-> qdot]
       /\ last' = [NoArgs EXCEPT !.op = "update", !.period = period, !.since = since,
                                 !.p = lastCmd]
       /\ cycle' = [at |-> IF Len(joint_handles_) = 0 THEN 0 ELSE 1,
                    period |-> period, start |-> PIDs_, used |-> <<>>]
  /\ since' = "update"
  /\ lastCmd' = ZeroVec
  /\ UNCHANGED <<phase, params, init_ret, shutdown, kdl_chain_, joint_handles_,
                 solvers, subs, tau_cmd_, J_, PIDs_, x_des_, cmd>>

\* one iteration of the torque loop of update
update_torque ==
  /\ cycle.at \in 1 .. Len(joint_handles_)
  /\ \E i \in {cycle.at} :
     \E g \in {GainsRead(PIDs_, cycle, i)} :
     \E tau \in {computeCommand(g, joint_des_states_.q[i] - joint_msr_states_.q[i],
                                cycle.period)} :
       /\ tau_cmd_' = [tau_cmd_ EXCEPT ![i] = tau]
       /\ cmd' = [cmd EXCEPT ![i] = tau]
       /\ cycle' = [cycle EXCEPT
                      !.at = IF i = Len(joint_handles_) THEN 0 ELSE i + 1,
                      !.used = Append(@, g)]
  /\ UNCHANGED <<phase, params, init_ret, shutdown, kdl_chain_, joint_handles_,
                 solvers, subs, joint_msr_states_, joint_des_states_, J_, J_pinv_,
                 PIDs_, x_, x_des_, x_err_, since, lastCmd, last>>

RaceNext == update_begin \/ update_torque \/ command_configuration \/ set_gains

SpecRace == RaceInit /\ [][RaceNext]_vars

\* ------------------------------------------------------------------ claims
N == getNrOfJoints(kdl_chain_)

\* everything the controller holds apart from the Cartesian target pose
ExceptTarget == <<phase, init_ret, shutdown, kdl_chain_, joint_handles_, solvers,
                  subs, joint_msr_states_, joint_des_states_, tau_cmd_, J_,
                  J_pinv_, PIDs_, x_, x_err_, cmd>>

\* C1: when one of the six failure causes is present (description not found by
\* search, root_name missing, tip_name missing, description parameter unset or
\* empty, description unparsable or tree not constructible, no chain between
\* root and tip), init returns false, and when it has returned no joint handle
\* is held, no solver exists and neither topic is subscribed.
C1_InitFailsClosed ==
  (/\ init_ret # "none"
   /\ \/ ~params.search
      \/ ~params.root_name
      \/ ~params.tip_name
      \/ ~params.hasParam
      \/ params.xml \in {"empty", "unparsable", "notree"}
      \/ ~params.connected)
  => (/\ init_ret = "false"
      /\ phase = "failed"
      /\ joint_handles_ = <<>>
      /\ ~solvers
      /\ subs = {})

\* init has returned false because the chain between root and tip is missing,
\* every earlier check having passed
C1_Witness ==
  /\ init_ret = "false"
  /\ params.search /\ params.root_name /\ params.tip_name /\ params.hasParam
  /\ params.xml = "ok"
  /\ ~params.connected
  /\ Len(params.chain) = 2

\* C2: after a successful init on a chain with N movable joints, the measured
\* and desired joint state, the torque vector, the Jacobian columns and the PID
\* set have N elements each, and N joint handles are held.
C2_ChainSizing ==
  init_ret = "true"
  => (/\ Len(joint_msr_states_.q) = N
      /\ Len(joint_des_states_.q) = N
      /\ Len(joint_des_states_.qdot) = N
      /\ Len(tau_cmd_) = N
      /\ J_ = N
      /\ Len(PIDs_) = N
      /\ Len(joint_handles_) = N)

\* C3: immediately after starting, the desired joint position equals the
\* measured joint position at every joint index, and the Cartesian target pose
\* is the forward-kinematics image of that measured position.
C3_StartingHoldsPose ==
  last.op = "starting"
  => (/\ \A i \in 1 .. N : joint_des_states_.q[i] = joint_msr_states_.q[i]
      /\ Len(joint_des_states_.q) = Len(joint_msr_states_.q)
      /\ x_des_ = JntToCart(joint_msr_states_.q))

\* starting has run on a joint that reports a non-zero position, after an
\* update had moved the desired position away from the measured one
C3_Witness ==
  /\ last.op = "starting"
  /\ last.since = "update"
  /\ \E i \in 1 .. N : joint_msr_states_.q[i] # 0
  /\ \E i \in 1 .. N : joint_des_states_.qdot[i] # 0

\* C4 as stated: the desired-pose handler sets the position of the target pose
\* to the position of the message, leaves the orientation of the target pose as
\* it was, and changes no other controller state.
C4_Original ==
  [][last'.op = "command_configuration"
     => (/\ x_des_'.p = last'.p
         /\ x_des_'.M = x_des_.M
         /\ UNCHANGED ExceptTarget)]_vars

\* C4 as amended: the desired-pose handler sets the position of the target pose
\* to the position of the message and its orientation to the identity (neither
\* the message's orientation nor the previous one is kept), and changes no other
\* controller state.
C4_HandlerSetsPositionAndIdentity ==
  [][last'.op = "command_configuration"
     => (/\ x_des_'.p = last'.p
         /\ x_des_'.M = 0
         /\ UNCHANGED ExceptTarget)]_vars

\* a message with a non-identity orientation has been handled right after a
\* starting that had left a non-identity orientation in the target pose
C4_Witness ==
  /\ last.op = "command_configuration"
  /\ last.since = "starting"
  /\ x_.M # 0
  /\ last.M # 0
  /\ x_des_ = [p |-> last.p, M |-> 0]

\* C5: a set_gains message whose length is not 2 * N changes no PID and no
\* other controller state.
C5_MalformedGainsDropped ==
  [][(last'.op = "set_gains" /\ Len(last'.data) # 2 * Len(PIDs_))
     => UNCHANGED <<PIDs_, x_des_, ExceptTarget>>]_vars

\* a message one value too long has been handled while the PIDs hold the
\* activation gains
C5_Witness ==
  /\ last.op = "set_gains"
  /\ Len(PIDs_) = 2
  /\ Len(last.data) = 2 * Len(PIDs_) + 1
  /\ \A i \in 1 .. Len(PIDs_) : PIDs_[i].p = ActivationP

\* C6: after a set_gains message of exactly 2 * N values, joint i (0-based) has
\* proportional gain array[i], integral gain array[N + i] and derivative gain 0.
C6_WellFormedGainsMapping ==
  (last.op = "set_gains" /\ Len(last.data) = 2 * Len(PIDs_))
  => \A i \in 1 .. Len(PIDs_) :
       /\ PIDs_[i].p = last.data[i]
       /\ PIDs_[i].i = last.data[Len(PIDs_) + i]
       /\ PIDs_[i].d = 0

\* N = 2 and the array 10, 20, 1, 2: joint 0 has P = 10, I = 1 and joint 1 has
\* P = 20, I = 2
C6_Witness ==
  /\ last.op = "set_gains"
  /\ Len(PIDs_) = 2
  /\ last.data = <<10, 20, 1, 2>>
  /\ PIDs_[1].p = 10 /\ PIDs_[1].i = 1
  /\ PIDs_[2].p = 20 /\ PIDs_[2].i = 2

\* C7: the angular part of the Cartesian pose error is zero in every state, and
\* after every update its linear part is target position minus measured position.
C7_OrientationNeverTracked ==
  /\ x_err_.rot = ZeroVec
  /\ last.op = "update" => x_err_.vel = VecSub(x_des_.p, x_.p)

\* an update has run with a target whose orientation and position both differ
\* from the measured pose
C7_Witness ==
  /\ last.op = "update"
  /\ x_des_.M # x_.M
  /\ x_des_.p # x_.p

\* C8 as stated: immediately after starting the target pose is the measured
\* pose, whatever desired-pose messages came before, and the first update after
\* starting with no message in between computes a zero linear pose error.
C8_Original ==
  [][/\ last'.op = "starting" => x_des_' = x_'
     /\ (since = "starting" /\ last'.op = "update") => x_err_'.vel = ZeroVec]_vars

\* C8 as amended: immediately after starting the target pose is the measured
\* pose, whatever desired-pose messages came before; the first update after
\* starting with no message in between computes as linear pose error the
\* position measured at starting minus the position it measures itself, which is
\* zero when the handles report the joint positions they reported at starting.
C8_ActivationDiscardsCommands ==
  [][/\ last'.op = "starting"
        => (x_des_' = x_' /\ x_' = JntToCart(joint_msr_states_'.q))
     /\ (since = "starting" /\ last'.op = "update")
        => (/\ x_err_'.vel = VecSub(x_.p, x_'.p)
            /\ joint_msr_states_' = joint_msr_states_ => x_err_'.vel = ZeroVec)]_vars

\* starting has run after two or more desired-pose messages, and the target is
\* the measured pose, which no message carried
C8_Witness ==
  /\ last.op = "starting"
  /\ last.since = "cmd2"
  /\ x_des_ = x_
  /\ x_des_.p \notin Positions

\* C9: when two or more desired-pose messages were delivered since the previous
\* update (and no starting after them), the update computes its pose error from
\* the position of the last of them, which is all the target pose holds.
C9_NewestPoseWins ==
  (last.op = "update" /\ last.since = "cmd2")
  => (/\ x_des_ = [p |-> last.p, M |-> 0]
      /\ x_err_.vel = VecSub(last.p, x_.p))

\* an update has run after two or more messages, the last of which asked for a
\* position away from the origin
C9_Witness ==
  /\ last.op = "update"
  /\ last.since = "cmd2"
  /\ last.p # ZeroVec
  /\ x_err_.vel # ZeroVec

\* C10: an update that finds the target position equal to the Cartesian position
\* it measures computes a zero desired velocity for every joint and leaves the
\* desired joint position as it was.
C10_ZeroErrorSteadyState ==
  [][(last'.op = "update" /\ x_des_.p = x_'.p)
     => (/\ \A i \in 1 .. Len(joint_des_states_'.qdot) : joint_des_states_'.qdot[i] = 0
         /\ joint_des_states_'.q = joint_des_states_.q)]_vars

\* an update has run at zero error, for a period of 2, while the desired
\* position differs from the measured one
C10_Witness ==
  /\ last.op = "update"
  /\ x_des_.p = x_.p
  /\ last.period = 2
  /\ Len(joint_des_states_.qdot) > 0
  /\ \A i \in 1 .. Len(joint_des_states_.qdot) : joint_des_states_.qdot[i] = 0
  /\ joint_des_states_.q # joint_msr_states_.q

\* C11: immediately after any starting call every PID has proportional gain
\* 100, integral gain 1 and derivative gain 0, whatever set_gains messages were
\* applied before; an update leaves the gains as they are, so gains set by a
\* message last until the next starting.
C11_ActivationResetsGains ==
  [][/\ last'.op = "starting"
        => (/\ Len(PIDs_') = Len(PIDs_)
            /\ \A i \in 1 .. Len(PIDs_') :
                 PIDs_'[i].p = 100 /\ PIDs_'[i].i = 1 /\ PIDs_'[i].d = 0)
     /\ last'.op = "update" => PIDs_' = PIDs_]_vars

\* starting has run and the PIDs hold the activation gains, while the torque of
\* an earlier update, not a multiple of 100, was computed with gains a message
\* had set
C11_Witness ==
  /\ last.op = "starting"
  /\ Len(PIDs_) > 0
  /\ PIDs_[1].p = 100 /\ PIDs_[1].i = 1
  /\ tau_cmd_[1] % 100 # 0

\* C12: one update reads the joint state, computes the desired velocity from
\* the error against the pose of that reading, advances the desired position by
\* period * velocity and then computes each joint's torque from (desired
\* position after the advance - position measured in this cycle), writing it to
\* each of the N handles.  With N = 1, a positive pseudo-inverse entry on the
\* error axis, a target offset of +1 on that axis, the activation gains and the
\* desired position at the measured one, the velocity is positive, the desired
\* position grows by entry * 1 * period and the torque is positive.
C12_UpdateOrdering ==
  [][last'.op = "update"
     => (/\ x_' = JntToCart(joint_msr_states_'.q)
         /\ x_err_' = [vel |-> VecSub(x_des_.p, x_'.p), rot |-> ZeroVec]
         /\ Len(cmd') = N
         /\ \A i \in 1 .. N :
              /\ joint_des_states_'.qdot[i] =
                   SumSeq([k \in 1 .. 6 |-> J_pinv_'[i][k] * TwistAt(x_err_', k)])
              /\ joint_des_states_'.q[i] =
                   joint_des_states_.q[i] + last'.period * joint_des_states_'.qdot[i]
              /\ tau_cmd_'[i] =
                   computeCommand(PIDs_[i],
                                  joint_des_states_'.q[i] - joint_msr_states_'.q[i],
                                  last'.period)
              /\ cmd'[i] = tau_cmd_'[i]
         /\ (/\ N = 1
             /\ x_err_'.vel = <<1, 0, 0>>
             /\ J_pinv_'[1][1] > 0
             /\ PIDs_[1].p = 100 /\ PIDs_[1].i = 1
             /\ joint_des_states_.q = joint_msr_states_'.q)
            => (/\ joint_des_states_'.qdot[1] > 0
                /\ joint_des_states_'.q[1] =
                     joint_des_states_.q[1] + J_pinv_'[1][1] * 1 * last'.period
                /\ tau_cmd_'[1] > 0))]_vars

\* C13: update and the message handlers are not synchronised: every iteration
\* of the torque loop computes with the gains its PID holds at that moment, so
\* an execution exists in which the torque loop of one cycle uses the old gains
\* for some joints and the gains of a message for others.
C13_TorqueLoopReadsLiveGains ==
  [][cycle.at \in 1 .. Len(joint_handles_) /\ cycle'.used # cycle.used
     => (/\ tau_cmd_'[cycle.at] =
              computeCommand(PIDs_[cycle.at],
                             joint_des_states_.q[cycle.at]
                               - joint_msr_states_.q[cycle.at],
                             cycle.period)
         /\ cmd'[cycle.at] = tau_cmd_'[cycle.at]
         /\ cycle'.used = Append(cycle.used, PIDs_[cycle.at]))]_vars

\* a cycle has ended whose torque for joint 1 was computed with the gains the
\* cycle began with and whose torque for joint 2 with the gains of a message
\* that arrived in between
C13_Witness ==
  /\ cycle.at = 0
  /\ Len(cycle.used) = 2
  /\ cycle.used[1] = cycle.start[1]
  /\ cycle.used[2] # cycle.start[2]
  /\ cycle.used[2].p = 20
  /\ tau_cmd_[1] # 0 /\ tau_cmd_[2] # 0

\* C14: when starting, update and the callbacks run one at a time, an update
\* computes its pose error from the target pose and every handle's torque from
\* the gains that the operations before it left, and changes neither; after
\* pose messages that target pose is the position of the newest message.
C14_SerializedUpdateUsesOneInput ==
  [][last'.op = "update"
     => (/\ x_err_'.vel = VecSub(x_des_.p, x_'.p)
         /\ since \in {"cmd1", "cmd2"} => x_des_ = [p |-> lastCmd, M |-> 0]
         /\ \A i \in 1 .. Len(joint_handles_) :
              /\ tau_cmd_'[i] =
                   computeCommand(PIDs_[i],
                                  joint_des_states_'.q[i] - joint_msr_states_'.q[i],
                                  last'.period)
              /\ cmd'[i] = tau_cmd_'[i]
         /\ UNCHANGED <<x_des_, PIDs_>>)]_vars

\* an update has run after one pose message and with gains a message had set,
\* and its torque, not a multiple of 100, shows those gains
C14_Witness ==
  /\ last.op = "update"
  /\ last.since = "cmd1"
  /\ Len(joint_handles_) = 1
  /\ PIDs_[1].p = 10
  /\ x_des_.p = last.p
  /\ tau_cmd_[1] # 0
  /\ tau_cmd_[1] % 100 # 0

\* C15: the desired joint position is written by starting and update only:
\* starting sets it to the measured position, each update adds period * desired
\* velocity of that cycle for every joint, without clamping or re-synchronising,
\* and neither message handler changes it.
C15_DesiredPositionIntegrates ==
  [][/\ last'.op = "starting" => joint_des_states_'.q = joint_msr_states_'.q
     /\ last'.op = "update"
        => \A i \in 1 .. N :
             joint_des_states_'.q[i] =
               joint_des_states_.q[i] + last'.period * joint_des_states_'.qdot[i]
     /\ last'.op \in {"command_configuration", "set_gains"}
        => UNCHANGED joint_des_states_]_vars

\* C16: once init has returned, the target pose changes only in starting and in
\* the desired-pose handler, the gains change only in starting and in a
\* set_gains message of 2 * N values, and an update changes neither.
C16_UpdateLeavesInputs ==
  [][init_ret # "none"
     => (/\ x_des_' # x_des_ => last'.op \in {"starting", "command_configuration"}
         /\ PIDs_' # PIDs_
            => \/ last'.op = "starting"
               \/ last'.op = "set_gains" /\ Len(last'.data) = 2 * Len(PIDs_)
         /\ last'.op = "update" => UNCHANGED <<x_des_, PIDs_>>)]_vars

\* an update has run with a target a message had set and gains a message had
\* set, and both are still there
C16_Witness ==
  /\ last.op = "update"
  /\ x_des_ = [p |-> <<1, 0, 0>>, M |-> 0]
  /\ x_ # x_des_
  /\ Len(PIDs_) > 0
  /\ PIDs_[1].p = 10
  /\ joint_des_states_.qdot[1] # 0

\* C17: the checks of init run in the order description search, root_name,
\* tip_name, description parameter set, content non-empty, parse, tree, chain;
\* the first that fails decides the outcome, and shutdown is requested exactly
\* when that one is parameter unset, content empty, parse or tree failure.
C17_InitCheckOrder ==
  init_ret # "none"
  => (/\ (init_ret = "false")
           = (\/ ~params.search \/ ~params.root_name \/ ~params.tip_name
              \/ ~params.hasParam \/ params.xml # "ok" \/ ~params.connected)
      /\ shutdown
           = (/\ params.search /\ params.root_name /\ params.tip_name
              /\ (~params.hasParam \/ params.xml # "ok"))
      /\ last.op = "init"
         => last.log =
              CASE ~params.search -> "no_description"
                [] params.search /\ ~params.root_name -> "no_root_name"
                [] params.search /\ params.root_name /\ ~params.tip_name
                     -> "no_tip_name"
                [] OTHER ->
                     IF ~params.hasParam THEN "param_unset"
                     ELSE IF params.xml # "ok" THEN params.xml
                     ELSE IF ~params.connected THEN "no_chain"
                     ELSE "none")

\* init has failed with tip_name missing and the description parameter unset:
\* the tip_name check came first, and no shutdown was requested
C17_Witness ==
  /\ init_ret = "false"
  /\ params.search /\ params.root_name
  /\ ~params.tip_name
  /\ ~params.hasParam
  /\ last.log = "no_tip_name"
  /\ ~shutdown

\* C18: the diagnostic logged for a set_gains message of the wrong length
\* states the required number of values, 2 * N.
C18_DiagnosticStatesRequiredCount ==
  (last.op = "set_gains" /\ Len(last.data) # 2 * Len(PIDs_))
  => last.log = 2 * Len(PIDs_)

====
